---------------------------- MODULE Spec2Model ----------------------------
(***************************************************************************)
(* The request-guard pipeline of the CORS proxy (src/index.ts, lines       *)
(* 1-185): two rate limiters in front of every route, and the handler of   *)
(* GET /<target>: URL parsing, A/AAAA resolution and the blocked-range      *)
(* check, the HEAD probe, the full GET, and the response written to the    *)
(* caller.                                                                 *)
(*                                                                         *)
(* JavaScript runs every handler to its next await without interruption,   *)
(* so one action is one such run: the arrival of a request (both limiters   *)
(* and the handler up to its first await) and the resumption of a handler   *)
(* when the awaited DNS lookup or upstream answer arrives.  The answers of  *)
(* the resolver and of the upstream are inputs of these actions.            *)
(*                                                                         *)
(* A behaviour is one of three workloads: "side by side", a few requests of *)
(* any kind whose awaits interleave freely; "back to back", any number of   *)
(* requests that are answered before the handler's first await, one after   *)
(* the other while time passes (each is forgotten when the next arrives);   *)
(* and "sustained", a client that sends as fast as the limiters let it,     *)
(* each request arriving while the ones before it still await their first   *)
(* DNS answer (only the latest arrivals of the current window are kept).    *)
(***************************************************************************)
EXTENDS Integers, Sequences, FiniteSets, Bags, TLC

VARIABLES
    now,      \* wall clock of the process, in milliseconds since start
    store,    \* the two limiters' memory stores: limiter -> client -> hits, resetTime
    reqs,     \* the bag of the requests being served and served
    workload  \* what the clients do in this behaviour

vars == <<now, store, reqs, workload>>

---------------------------------------------------------------------------
(* Bounds of the model.                                                    *)

MaxRequests == 2     \* requests served side by side
MaxTicks == 3        \* clock ticks a back-to-back behaviour may take
TickSeconds == 30    \* seconds per clock tick
MaxOverLimit == 2    \* requests a client keeps sending once a limiter rejects
MaxLongWindows == 1  \* six-hour windows a sustained behaviour may see run out
SmallSize == 50      \* byte size of a small upstream body

Clients == {"198.51.100.7"}

---------------------------------------------------------------------------
(* Program constants.                                                      *)

MINUTE_MAX_REQUESTS == 20
SIX_HOURS_MAX_REQUESTS == 500
MAX_SIZE == 1 * 1000 * 1000

\* The error envelopes and the informational payload: status and name.
TOO_LARGE_RESPONSE == [code |-> 413, name |-> "TOO_LARGE_RESPONSE"]
RATE_LIMIT_EXCEEDED == [code |-> 429, name |-> "RATE_LIMIT_EXCEEDED"]
TYPE_NOT_ALLOED == [code |-> 400, name |-> "TYPE_NOT_ALLOED"]
HELLO_MSG == [code |-> 200, name |-> "HELLO_MSG"]
ACCESS_DENIED == [code |-> 403, name |-> "ACCESS_DENIED"]
MISSING_URL_PARAM == [code |-> 400, name |-> "MISSING_URL_PARAM"]
FETCH_ERROR == [code |-> 500, name |-> "Error fetching the URL"]

\* The short window configured with the long window's maximum.
minuteLimiterWrongMax ==
    [name |-> "minute", windowMs |-> 60 * 1000, max |-> SIX_HOURS_MAX_REQUESTS,
     message |-> RATE_LIMIT_EXCEEDED]

minuteLimiter ==
    [name |-> "minute", windowMs |-> 60 * 1000, max |-> MINUTE_MAX_REQUESTS,
     message |-> RATE_LIMIT_EXCEEDED]

sixHourLimiter ==
    [name |-> "sixHour", windowMs |-> 6 * 60 * 60 * 1000,
     max |-> SIX_HOURS_MAX_REQUESTS, message |-> RATE_LIMIT_EXCEEDED]

---------------------------------------------------------------------------
(* Addresses and the blocked ranges.  An IPv4 address is its four octets,  *)
(* an IPv6 address its eight 16-bit groups; a range is a base address and  *)
(* a prefix length.                                                        *)

V4(a, b, c, d) == <<a, b, c, d>>
V6(a, b, c, d, e, f, g, h) == <<a, b, c, d, e, f, g, h>>

Pow2(n) == IF n = 0 THEN 1 ELSE 2 ^ n

blockedRanges ==
    { [base |-> V4(192, 168, 0, 0), bits |-> 16],
      [base |-> V4(10, 0, 0, 0), bits |-> 8],
      [base |-> V6(65152, 0, 0, 0, 0, 0, 0, 0), bits |-> 10],     \* fe80::/10
      [base |-> V6(64512, 0, 0, 0, 0, 0, 0, 0), bits |-> 7],      \* fc00::/7
      [base |-> V4(127, 0, 0, 0), bits |-> 8],
      [base |-> V6(0, 0, 0, 0, 0, 0, 0, 1), bits |-> 128],        \* ::1/128
      [base |-> V4(172, 16, 0, 0), bits |-> 12],
      [base |-> V4(169, 254, 0, 0), bits |-> 16],
      [base |-> V6(64768, 0, 0, 0, 0, 0, 0, 0), bits |-> 8],      \* fd00::/8
      [base |-> V4(100, 64, 0, 0), bits |-> 10] }

\* The first `bits` bits of two addresses of the same family agree.
MatchCIDR(addr, base, bits) ==
    LET w == IF Len(addr) = 4 THEN 8 ELSE 16
    IN  \A i \in 1..Len(addr) :
            LET lo == (i - 1) * w
                n == IF bits >= lo + w THEN w
                     ELSE IF bits <= lo THEN 0 ELSE bits - lo
            IN  addr[i] \div Pow2(w - n) = base[i] \div Pow2(w - n)

\* ipRangeCheck(address, ranges): the address lies in one of the ranges; a
\* range of the other family never matches.
ipRangeCheck(address, ranges) ==
    \E r \in ranges :
        /\ Len(r.base) = Len(address)
        /\ MatchCIDR(address, r.base, r.bits)

\* Addresses the resolver may answer with.
PublicV4 == V4(93, 184, 216, 34)
PrivateV4 == V4(10, 0, 0, 5)
PublicV6 == V6(9734, 10240, 544, 1, 584, 6291, 9672, 6470)
PrivateV6 == V6(64768, 0, 0, 0, 0, 0, 0, 1)                      \* fd00::1

\* An answer of dns.resolve4 / dns.resolve6: a rejection, or a non-empty
\* list of addresses (a lookup with no record rejects with ENODATA).
Resolve4Answers ==
    { [ok |-> FALSE, list |-> {}] } \cup
    { [ok |-> TRUE, list |-> {a}] : a \in {PublicV4, PrivateV4} }

Resolve6Answers ==
    { [ok |-> FALSE, list |-> {}] } \cup
    { [ok |-> TRUE, list |-> {a}] : a \in {PublicV6, PrivateV6} }

---------------------------------------------------------------------------
(* Targets.  The target of GET /<target> is the path without its leading   *)
(* slash, here the scheme and the host that the string spells (an empty    *)
(* scheme: the string has none, as in "localhost/admin").                  *)

NoTarget == [scheme |-> "", host |-> ""]                   \* GET /

Targets ==
    { [scheme |-> "", host |-> "localhost"],               \* localhost/admin
      [scheme |-> "http", host |-> ""],                    \* http://
      [scheme |-> "http", host |-> "localhost"],           \* http://localhost/admin
      [scheme |-> "https", host |-> "LOCALHOST"],          \* https://LOCALHOST/admin
      [scheme |-> "ftp", host |-> "api.example.com"],      \* ftp://api.example.com/x
      [scheme |-> "file", host |-> ""],                    \* file:///etc/hosts
      [scheme |-> "https", host |-> "api.example.com"] }   \* https://api.example.com/users/1

\* Targets whose request is answered before the handler's first await.
SyncTargets == { NoTarget, [scheme |-> "", host |-> "localhost"] }

\* Targets of a sustained load: the root path and one upstream.
SustainedTargets == { NoTarget, [scheme |-> "https", host |-> "api.example.com"] }

SpecialSchemes == {"http", "https", "ftp", "ws", "wss", "file"}

AsciiLower(h) == IF h = "LOCALHOST" THEN "localhost" ELSE h

\* new URL(targetUrl): throws on a string with no scheme and on a special
\* scheme other than file with an empty host; the host of a special scheme is
\* lower-cased, the host of any other scheme is kept as written.
URL(t) ==
    IF t.scheme = "" THEN [ok |-> FALSE, hostname |-> ""]
    ELSE IF t.scheme \in SpecialSchemes
    THEN IF t.host = "" /\ t.scheme # "file"
         THEN [ok |-> FALSE, hostname |-> ""]
         ELSE [ok |-> TRUE, hostname |-> AsciiLower(t.host)]
    ELSE [ok |-> TRUE, hostname |-> t.host]

\* axios sends a request to the network only for http and https URLs; for any
\* other scheme the call rejects without contacting anything.
AxiosSends(t) == t.scheme \in {"http", "https"}

---------------------------------------------------------------------------
(* Upstream answers.  A content type is the list of the pieces of the      *)
(* header's value, so that a prefix of the value is a prefix of the list.  *)

Json == <<"application/json">>
JsonCharset == <<"application/json", "; charset=utf-8">>
JsonSeq == <<"application/json", "-seq">>
Html == <<"text/html">>

\* A body: its kind, its size on the wire, and the size of its compact JSON
\* text (what JSON.stringify writes for the parsed value).
NoBody == [kind |-> "none", bytes |-> 0, compact |-> 0]

Answer(st, hasType, type, hasLength, length, body) ==
    [net |-> TRUE, status |-> st, hasType |-> hasType, type |-> type,
     hasLength |-> hasLength, length |-> length, body |-> body]

\* No answer at all: connection refused, reset, DNS failure inside axios.
NetworkError ==
    [net |-> FALSE, status |-> 0, hasType |-> FALSE, type |-> <<>>,
     hasLength |-> FALSE, length |-> 0, body |-> NoBody]

HeadAnswers ==
    { NetworkError,
      Answer(405, FALSE, <<>>, FALSE, 0, NoBody),
      Answer(302, TRUE, Html, TRUE, SmallSize, NoBody),
      Answer(200, FALSE, <<>>, TRUE, SmallSize, NoBody),
      Answer(200, TRUE, Html, TRUE, SmallSize, NoBody),
      Answer(200, TRUE, JsonSeq, TRUE, SmallSize, NoBody),
      Answer(200, TRUE, Json, FALSE, 0, NoBody),
      Answer(200, TRUE, Json, TRUE, SmallSize, NoBody),
      Answer(200, TRUE, JsonCharset, TRUE, MAX_SIZE, NoBody),
      Answer(200, TRUE, Json, TRUE, MAX_SIZE + 1, NoBody) }

\* The body as axios hands it over in response.data: a parsed JSON object,
\* the JSON value null, or text (what does not parse as JSON stays text).
Body(kind, bytes) == [kind |-> kind, bytes |-> bytes, compact |-> bytes]

\* A JSON object written with white space between its tokens.
SpacedObject(bytes, spaces) ==
    [kind |-> "object", bytes |-> bytes, compact |-> bytes - spaces]

GetAnswers ==
    { NetworkError,
      Answer(404, TRUE, Json, TRUE, SmallSize, Body("object", SmallSize)),
      Answer(404, TRUE, Html, TRUE, SmallSize, Body("text", SmallSize)),
      Answer(302, TRUE, Json, TRUE, SmallSize, Body("object", SmallSize)),
      Answer(200, FALSE, <<>>, TRUE, SmallSize, Body("text", SmallSize)),
      Answer(200, TRUE, Html, TRUE, SmallSize, Body("text", SmallSize)),
      Answer(200, TRUE, JsonSeq, TRUE, SmallSize, Body("text", SmallSize)),
      Answer(200, TRUE, Json, TRUE, SmallSize, SpacedObject(SmallSize, 8)),
      Answer(200, TRUE, JsonCharset, TRUE, SmallSize, Body("null", 4)),
      Answer(200, TRUE, Json, TRUE, MAX_SIZE, Body("text", MAX_SIZE)),
      Answer(200, TRUE, Json, FALSE, 0, Body("text", MAX_SIZE + 1)),
      Answer(200, TRUE, Json, FALSE, 0, Body("object", MAX_SIZE + 1)) }

\* axios settles a request: it resolves with the answer when the status is
\* 2xx and rejects otherwise (no answer, or any other status; a 3xx is not
\* followed under maxRedirects: 0 and rejects like any non-2xx status).
AxiosResolves(a) == a.net /\ a.status >= 200 /\ a.status < 300

\* headers.getContentType() of an answer without the header is undefined, and
\* undefined.startsWith(...) throws.
ContentTypeThrows(a) == ~a.hasType

\* s.startsWith(prefix)
StartsWith(s, prefix) ==
    /\ Len(s) >= Len(prefix)
    /\ SubSeq(s, 1, Len(prefix)) = prefix

\* !(headers.getContentLength()) > MAX_SIZE: the negation binds first, so the
\* comparison is of a boolean (as 0 or 1) with MAX_SIZE.
HeadTooLarge(a) ==
    LET negated == ~a.hasLength
    IN  (IF negated THEN 1 ELSE 0) > MAX_SIZE

\* response.data.toString(): "[object Object]" for a parsed object, the text
\* itself for text; on null the call throws.
ToStringThrows(body) == body.kind = "null"

ToStringLength(body) == IF body.kind = "object" THEN 15 ELSE body.bytes

---------------------------------------------------------------------------
(* Requests.                                                               *)

NoAnswer ==
    [net |-> FALSE, status |-> -1, hasType |-> FALSE, type |-> <<>>,
     hasLength |-> FALSE, length |-> 0, body |-> NoBody]

\* A request as it arrives: nothing of the pipeline has run for it.
NewRequest(c, t) ==
    [pc |-> "arrived", client |-> c, target |-> t,
     minuteHits |-> 0,            \* hit count the minute limiter gave it (0: not reached)
     sixHourHits |-> 0,           \* hit count the six-hour limiter gave it (0: not reached)
     handler |-> FALSE,           \* a route handler was entered
     lookups |-> {},              \* DNS lookups started: "A", "AAAA"
     addresses |-> {},            \* const addresses
     ipv6Addresses |-> {},        \* const ipv6Addresses
     probe |-> FALSE,             \* axios.head was called
     headAnswer |-> NoAnswer,     \* what the upstream answered to it
     fetch |-> FALSE,             \* axios.get was called
     getAnswer |-> NoAnswer,      \* what the upstream answered to it
     calls |-> <<>>,              \* the axios calls made, in order: "HEAD", "GET"
     res |-> <<>>]                \* the responses written to the caller, in order

\* res.status(code).json(envelope); return
Json_(r, envelope) ==
    [r EXCEPT !.pc = "done",
              !.res = Append(@, [status |-> envelope.code, kind |-> "json",
                                 name |-> envelope.name, bytes |-> 0])]

\* res.send(response.data); return.  The status stays at its default, 200;
\* null is sent as an empty body, an object as res.json sends it (its
\* compact JSON text), text as it is.
Send(r, body) ==
    [r EXCEPT !.pc = "done",
              !.res = Append(@, [status |-> 200, kind |-> "data",
                                 name |-> body.kind,
                                 bytes |-> IF body.kind = "null" THEN 0
                                           ELSE IF body.kind = "object"
                                           THEN body.compact
                                           ELSE body.bytes])]

---------------------------------------------------------------------------
(* The rate limiters (express-rate-limit with its memory store): a fixed   *)
(* window per client that opens with the client's first request and is     *)
(* reopened by the first request after it has run out.  Every request      *)
(* counts, a rejected one too.                                             *)

NoHits == [totalHits |-> 0, resetTime |-> 0]

\* An increment that is written over by the stale count of a request still
\* being served.
IncrementLost(limiter, entry, t) ==
    LET open == IF entry.resetTime <= t
                THEN [totalHits |-> 0, resetTime |-> t + limiter.windowMs]
                ELSE entry
    IN  IF open.totalHits > 0 /\ \E r \in BagToSet(reqs) : r.pc # "done"
        THEN open
        ELSE [open EXCEPT !.totalHits = @ + 1]

\* store.increment(key) at time t
Increment(limiter, entry, t) ==
    LET open == IF entry.resetTime <= t
                THEN [totalHits |-> 0, resetTime |-> t + limiter.windowMs]
                ELSE entry
    IN  [open EXCEPT !.totalHits = @ + 1]

\* The middleware lets the request through while the count is within max.
WithinLimit(limiter, entry) == entry.totalHits <= limiter.max

---------------------------------------------------------------------------
(* The handlers.                                                           *)

\* app.get("/"): the informational payload.
Hello(r) == Json_([r EXCEPT !.handler = TRUE], HELLO_MSG)

\* app.get("/*") up to its first await.
ProxyStart(r) ==
    LET q == [r EXCEPT !.handler = TRUE]
    IN  IF q.target = NoTarget THEN Json_(q, MISSING_URL_PARAM)
        ELSE IF ~URL(q.target).ok THEN Json_(q, ACCESS_DENIED)
        ELSE [q EXCEPT !.pc = "resolve4", !.lookups = {"A"}]

\* A server whose only route is app.get("/*").
RouteProxyOnly(r) == ProxyStart(r)

\* Express tries the routes in order: "/" is served by app.get("/").
Route(r) == IF r.target = NoTarget THEN Hello(r) ELSE ProxyStart(r)

\* A guard that rejects only when every address is blocked.
IsBlockedEvery(allAddresses) ==
    \A address \in allAddresses : ipRangeCheck(address, blockedRanges)

\* allAddresses.some(address => ipRangeCheck(address, blockedRanges))
IsBlocked(allAddresses) ==
    \E address \in allAddresses : ipRangeCheck(address, blockedRanges)

\* A guard that remembers the hostnames it has checked and lets later
\* requests for them pass unchecked.
GuardChecksHostOnce(r, ipv6Addresses) ==
    LET q == [r EXCEPT !.ipv6Addresses = ipv6Addresses]
        allAddresses == q.addresses \cup q.ipv6Addresses
        hostname == URL(q.target).hostname
        checked == \E p \in BagToSet(reqs) :
                       /\ p # r
                       /\ URL(p.target).hostname = hostname
                       /\ p.lookups = {"A", "AAAA"} /\ p.pc # "resolve6"
    IN  IF ~checked /\ (hostname = "localhost" \/ IsBlocked(allAddresses))
        THEN Json_(q, ACCESS_DENIED)
        ELSE [q EXCEPT !.pc = "head", !.probe = TRUE,
                       !.calls = Append(@, "HEAD")]

\* Lines 105-122: the AAAA answer is in; the guard decides, and on Allow the
\* probe is sent.
Guard(r, ipv6Addresses) ==
    LET q == [r EXCEPT !.ipv6Addresses = ipv6Addresses]
        allAddresses == q.addresses \cup q.ipv6Addresses
        hostname == URL(q.target).hostname
    IN  IF hostname = "localhost" \/ IsBlocked(allAddresses)
        THEN Json_(q, ACCESS_DENIED)
        ELSE [q EXCEPT !.pc = "head", !.probe = TRUE,
                       !.calls = Append(@, "HEAD")]

\* axios.get(targetUrl, {maxRedirects: 0}) is called.
StartFetch(r) ==
    [r EXCEPT !.pc = "get", !.fetch = TRUE, !.calls = Append(@, "GET")]

\* A probe whose failure is reported to the caller.
ProbeFailureEnds(r, a) ==
    LET q == [r EXCEPT !.headAnswer = a, !.addresses = {}, !.ipv6Addresses = {}]
    IN  IF ~AxiosResolves(a) THEN Json_(q, FETCH_ERROR)
        ELSE IF ContentTypeThrows(a) THEN StartFetch(q)
        ELSE IF ~StartsWith(a.type, Json) THEN Json_(q, TYPE_NOT_ALLOED)
        ELSE IF HeadTooLarge(a) THEN Json_(q, TOO_LARGE_RESPONSE)
        ELSE StartFetch(q)

\* A probe whose rejections lack their return.
ProbeNoReturn(r, a) ==
    LET q == [r EXCEPT !.headAnswer = a, !.addresses = {}, !.ipv6Addresses = {}]
    IN  IF ~AxiosResolves(a) THEN StartFetch(q)
        ELSE IF ContentTypeThrows(a) THEN StartFetch(q)
        ELSE IF ~StartsWith(a.type, Json)
             THEN StartFetch(Json_(q, TYPE_NOT_ALLOED))
        ELSE IF HeadTooLarge(a) THEN StartFetch(Json_(q, TOO_LARGE_RESPONSE))
        ELSE StartFetch(q)

\* Lines 122-139: the probe has settled with answer a.  The constants of the
\* guard's block are out of scope.
Probe(r, a) ==
    LET q == [r EXCEPT !.headAnswer = a, !.addresses = {}, !.ipv6Addresses = {}]
    IN  IF ~AxiosResolves(a) THEN StartFetch(q)
        ELSE IF ContentTypeThrows(a) THEN StartFetch(q)
        ELSE IF ~StartsWith(a.type, Json) THEN Json_(q, TYPE_NOT_ALLOED)
        ELSE IF HeadTooLarge(a) THEN Json_(q, TOO_LARGE_RESPONSE)
        ELSE StartFetch(q)

\* A full fetch that reads the content type with ?. and so takes a missing
\* type for one that is not JSON.
FetchOptionalType(r, a) ==
    LET q == [r EXCEPT !.getAnswer = a, !.headAnswer = NoAnswer]
    IN  IF ~AxiosResolves(a) THEN Json_(q, FETCH_ERROR)
        ELSE IF ContentTypeThrows(a) THEN Json_(q, TYPE_NOT_ALLOED)
        ELSE IF ~StartsWith(a.type, Json) THEN Json_(q, TYPE_NOT_ALLOED)
        ELSE IF ToStringThrows(a.body) THEN Send(q, a.body)
        ELSE IF ToStringLength(a.body) > MAX_SIZE
             THEN Json_(q, TOO_LARGE_RESPONSE)
        ELSE Send(q, a.body)

\* A full fetch that is made a second time when the first one fails.
FetchRetries(r, a) ==
    LET q == [r EXCEPT !.getAnswer = a, !.headAnswer = NoAnswer]
    IN  IF ~AxiosResolves(a)
        THEN IF Len(r.calls) < 3 THEN StartFetch(r)
             ELSE Json_(q, FETCH_ERROR)
        ELSE IF ContentTypeThrows(a) THEN Json_(q, FETCH_ERROR)
        ELSE IF ~StartsWith(a.type, Json) THEN Json_(q, TYPE_NOT_ALLOED)
        ELSE IF ToStringThrows(a.body) THEN Send(q, a.body)
        ELSE IF ToStringLength(a.body) > MAX_SIZE
             THEN Json_(q, TOO_LARGE_RESPONSE)
        ELSE Send(q, a.body)

\* A full fetch whose 413 branch lacks its return.
FetchFallsThrough(r, a) ==
    LET q == [r EXCEPT !.getAnswer = a, !.headAnswer = NoAnswer]
    IN  IF ~AxiosResolves(a) THEN Json_(q, FETCH_ERROR)
        ELSE IF ContentTypeThrows(a) THEN Json_(q, FETCH_ERROR)
        ELSE IF ~StartsWith(a.type, Json) THEN Json_(q, TYPE_NOT_ALLOED)
        ELSE IF ToStringThrows(a.body) THEN Send(q, a.body)
        ELSE IF ToStringLength(a.body) > MAX_SIZE
             THEN Send(Json_(q, TOO_LARGE_RESPONSE), a.body)
        ELSE Send(q, a.body)

\* Lines 139-160: the full fetch has settled with answer a.  The constant
\* headResponse of the probe's block is out of scope.
Fetch(r, a) ==
    LET q == [r EXCEPT !.getAnswer = a, !.headAnswer = NoAnswer]
    IN  IF ~AxiosResolves(a) THEN Json_(q, FETCH_ERROR)
        ELSE IF ContentTypeThrows(a) THEN Json_(q, FETCH_ERROR)
        ELSE IF ~StartsWith(a.type, Json) THEN Json_(q, TYPE_NOT_ALLOED)
        ELSE IF ToStringThrows(a.body) THEN Send(q, a.body)
        ELSE IF ToStringLength(a.body) > MAX_SIZE
             THEN Json_(q, TOO_LARGE_RESPONSE)
        ELSE Send(q, a.body)

---------------------------------------------------------------------------
(* Actions.                                                                *)

Init ==
    /\ now = 0
    /\ store = [l \in {"minute", "sixHour"} |-> [c \in Clients |-> NoHits]]
    /\ reqs = EmptyBag
    /\ workload \in {"side by side", "back to back", "sustained"}

Requests == BagToSet(reqs)

\* Request r has become q.
Becomes(r, q) == reqs' = (reqs (-) SetToBag({r})) (+) SetToBag({q})

\* A route whose limiters are mounted the other way round: sixHourLimiter,
\* then minuteLimiter.
ArriveLongFirst(kept, c, t) ==
    LET m == Increment(minuteLimiter, store["minute"][c], now)
        x == Increment(sixHourLimiter, store["sixHour"][c], now)
        r == [NewRequest(c, t) EXCEPT !.sixHourHits = x.totalHits]
    IN  /\ m.totalHits <= minuteLimiter.max + MaxOverLimit
        /\ x.totalHits <= sixHourLimiter.max + MaxOverLimit
        /\ UNCHANGED <<now, workload>>
        /\ IF ~WithinLimit(sixHourLimiter, x)
           THEN /\ store' = [store EXCEPT !["sixHour"][c] = x]
                /\ reqs' = kept (+) SetToBag({Json_(r, sixHourLimiter.message)})
           ELSE LET q == [r EXCEPT !.minuteHits = m.totalHits]
                IN  /\ store' = [store EXCEPT !["minute"][c] = m,
                                              !["sixHour"][c] = x]
                    /\ reqs' = kept (+) SetToBag({
                                   IF ~WithinLimit(minuteLimiter, m)
                                   THEN Json_(q, minuteLimiter.message)
                                   ELSE Route(q)})

\* A request of client c for target t arrives beside the requests kept:
\* minuteLimiter, then sixHourLimiter, then the route's handler up to its
\* first await.
Arrive(kept, c, t) ==
    LET m == Increment(minuteLimiter, store["minute"][c], now)
        x == Increment(sixHourLimiter, store["sixHour"][c], now)
        r == [NewRequest(c, t) EXCEPT !.minuteHits = m.totalHits]
    IN  /\ m.totalHits <= minuteLimiter.max + MaxOverLimit
        /\ x.totalHits <= sixHourLimiter.max + MaxOverLimit
        /\ UNCHANGED <<now, workload>>
        /\ IF ~WithinLimit(minuteLimiter, m)
           THEN /\ store' = [store EXCEPT !["minute"][c] = m]
                /\ reqs' = kept (+) SetToBag({Json_(r, minuteLimiter.message)})
           ELSE LET q == [r EXCEPT !.sixHourHits = x.totalHits]
                IN  /\ store' = [store EXCEPT !["minute"][c] = m,
                                              !["sixHour"][c] = x]
                    /\ reqs' = kept (+) SetToBag({
                                   IF ~WithinLimit(sixHourLimiter, x)
                                   THEN Json_(q, sixHourLimiter.message)
                                   ELSE Route(q)})

\* dns.resolve4(hostname).catch(() => []) settles; dns.resolve6 is started.
Resolve4Returns(r, a) ==
    /\ r.pc = "resolve4"
    /\ Becomes(r, [r EXCEPT !.addresses = IF a.ok THEN a.list ELSE {},
                            !.pc = "resolve6",
                            !.lookups = @ \cup {"AAAA"}])
    /\ UNCHANGED <<now, store, workload>>

\* dns.resolve6(hostname).catch(() => []) settles.
Resolve6Returns(r, a) ==
    /\ r.pc = "resolve6"
    /\ Becomes(r, Guard(r, IF a.ok THEN a.list ELSE {}))
    /\ UNCHANGED <<now, store, workload>>

\* axios.head settles.
HeadReturns(r, a) ==
    /\ r.pc = "head"
    /\ AxiosSends(r.target) \/ a = NetworkError
    /\ Becomes(r, Probe(r, a))
    /\ UNCHANGED <<now, store, workload>>

\* axios.get settles.
GetReturns(r, a) ==
    /\ r.pc = "get"
    /\ AxiosSends(r.target) \/ a = NetworkError
    /\ Becomes(r, Fetch(r, a))
    /\ UNCHANGED <<now, store, workload>>

\* Time passes.
Tick ==
    /\ now < MaxTicks * TickSeconds * 1000
    /\ now' = now + TickSeconds * 1000
    /\ UNCHANGED <<store, reqs, workload>>

\* Time passes until the window of a limiter that rejects client c has run
\* out.
WindowEnds(limiter, c) ==
    LET entry == store[limiter.name][c]
    IN  /\ ~WithinLimit(limiter, entry)
        /\ now < entry.resetTime
        /\ now < MaxLongWindows * sixHourLimiter.windowMs
        /\ now' = entry.resetTime
        /\ UNCHANGED <<store, reqs, workload>>

\* The latest arrivals of client c's current short window, as many as may be
\* served beside a new one.
Latest(c) ==
    LET entry == store["minute"][c]
    IN  IF entry.resetTime <= now THEN EmptyBag
        ELSE SetToBag({ r \in Requests :
                          r.minuteHits > entry.totalHits + 1 - MaxRequests })

\* Side by side: up to MaxRequests requests, each taking its own time at
\* every await.  Back to back: request after request, each answered before
\* the handler's first await, while time passes.  Sustained: request after
\* request with no DNS answer coming in, the clock moving from window to
\* window.
Next ==
    \/ \E c \in Clients, t \in Targets \cup {NoTarget} :
           /\ workload = "side by side"
           /\ BagCardinality(reqs) < MaxRequests
           /\ Arrive(reqs, c, t)
    \/ \E r \in Requests, a \in Resolve4Answers :
           workload # "sustained" /\ Resolve4Returns(r, a)
    \/ \E r \in Requests, a \in Resolve6Answers : Resolve6Returns(r, a)
    \/ \E r \in Requests, a \in HeadAnswers : HeadReturns(r, a)
    \/ \E r \in Requests, a \in GetAnswers : GetReturns(r, a)
    \/ \E c \in Clients, t \in SyncTargets :
           /\ workload = "back to back"
           /\ Arrive(EmptyBag, c, t)
    \/ workload = "back to back" /\ Tick
    \/ \E c \in Clients, t \in SustainedTargets :
           /\ workload = "sustained"
           /\ Arrive(Latest(c), c, t)
    \/ \E c \in Clients, limiter \in {minuteLimiter, sixHourLimiter} :
           workload = "sustained" /\ WindowEnds(limiter, c)

Spec == Init /\ [][Next]_vars

---------------------------------------------------------------------------
(* The claims.                                                             *)

\* The response that res.status(code).json(envelope) writes.
Envelope(envelope) ==
    [status |-> envelope.code, kind |-> "json", name |-> envelope.name,
     bytes |-> 0]

\* Request r is past the resolution stage: both lookups have settled.
Resolved(r) == r.lookups = {"A", "AAAA"} /\ r.pc \notin {"resolve4", "resolve6"}

\* The answers of the two lookups are still at hand (no upstream answer yet).
AnswersAtHand(r) ==
    Resolved(r) /\ r.headAnswer = NoAnswer /\ r.getAnswer = NoAnswer

InBlockedRange(address) ==
    \E range \in blockedRanges :
        /\ Len(range.base) = Len(address)
        /\ MatchCIDR(address, range.base, range.bits)

\* C1: a proxy request that passed both limiters and whose parsed hostname
\* is localhost, or for which a lookup returned an address in a blocked range
\* (whatever else was returned), ends with 403 ACCESS_DENIED, and neither
\* axios.head nor axios.get is called for it.
C1_BlockedIsDenied ==
    \A r \in Requests :
        /\ r.handler
        /\ r.pc \notin {"resolve4", "resolve6"}
        /\ \/ URL(r.target).ok /\ URL(r.target).hostname = "localhost"
           \/ AnswersAtHand(r) /\
              \E address \in r.addresses \cup r.ipv6Addresses :
                  InBlockedRange(address)
        => /\ r.pc = "done"
           /\ r.res = <<Envelope(ACCESS_DENIED)>>
           /\ ~r.probe
           /\ ~r.fetch

\* C1's case: a hostname answered with a public A record and a private AAAA
\* record has been denied.
C1_Witness ==
    \E r \in Requests :
        /\ r.pc = "done"
        /\ r.addresses = {PublicV4}
        /\ r.ipv6Addresses = {PrivateV6}
        /\ r.res = <<Envelope(ACCESS_DENIED)>>

\* C2 as claimed: a request whose full fetch brought a body of more than
\* MAX_SIZE bytes never has that body sent to the caller.
C2_OversizeNeverSent ==
    \A r \in Requests :
        r.getAnswer.body.bytes > MAX_SIZE =>
            \A i \in 1..Len(r.res) : r.res[i].kind # "data"

\* The request that arrives in this step, if one does: every arrival, and
\* nothing else, counts in the short-window limiter's store.
Arriving ==
    IF store'["minute"] = store["minute"] THEN {}
    ELSE { r \in BagToSet(reqs') : CopiesIn(r, reqs') > CopiesIn(r, reqs) }

\* C3: of the requests of one client inside one 60-second window, which the
\* client's first request opens, the first 20 pass the short-window limiter
\* and the 21st is answered 429 RATE_LIMIT_EXCEEDED with no handler run and
\* the long-window limiter not reached; the first request after the window
\* has run out opens a new window and passes.
C3_Step ==
    \A r \in Arriving :
        LET before == store["minute"][r.client]
            open == now < before.resetTime
            position == IF open THEN before.totalHits + 1 ELSE 1
            after == store'["minute"][r.client]
        IN  /\ r.minuteHits = position
            /\ after.totalHits = position
            /\ after.resetTime = IF open THEN before.resetTime
                                 ELSE now + 60 * 1000
            /\ position <= 20 => r.sixHourHits > 0
            /\ position <= 20 /\ r.sixHourHits <= 500 => r.handler
            /\ position = 21 =>
                   /\ r.res = <<Envelope(RATE_LIMIT_EXCEEDED)>>
                   /\ r.pc = "done"
                   /\ ~r.handler
                   /\ r.sixHourHits = 0
                   /\ r.lookups = {} /\ ~r.probe /\ ~r.fetch

C3_ShortWindow == [][C3_Step]_vars

\* C3's case: a 21st request has been answered 429 in a window that is not
\* the client's first (more than 20 of its requests have passed).
C3_Witness ==
    \E r \in Requests :
        /\ r.minuteHits = 21
        /\ r.res = <<Envelope(RATE_LIMIT_EXCEEDED)>>
        /\ store["sixHour"][r.client].totalHits > 20

ErrorEnvelopes ==
    { Envelope(e) : e \in {TOO_LARGE_RESPONSE, RATE_LIMIT_EXCEEDED,
                           TYPE_NOT_ALLOED, ACCESS_DENIED, MISSING_URL_PARAM,
                           FETCH_ERROR} }

\* C4: a proxy request has at most one response written, has exactly one
\* once it has ended, and that response is either the upstream body or one
\* error envelope.
C4_OneResponse ==
    \A r \in Requests :
        r.target # NoTarget =>
            /\ Len(r.res) <= 1
            /\ r.pc = "done" <=> Len(r.res) = 1
            /\ \A i \in 1..Len(r.res) :
                   \/ r.res[i].kind = "data" /\ r.fetch
                   \/ r.res[i] \in ErrorEnvelopes

\* C4's case: a request has ended on the full fetch's size check.
C4_Witness ==
    \E r \in Requests :
        /\ r.pc = "done"
        /\ r.getAnswer.body.bytes > MAX_SIZE
        /\ r.res = <<Envelope(TOO_LARGE_RESPONSE)>>

\* The host of the target, read without regard to case, is localhost.
HostIsLocalhost(t) == AsciiLower(t.host) = "localhost"

\* C5 as claimed: for a target that parses and whose hostname is localhost in
\* any case, no A or AAAA lookup is ever started.
C5_LocalhostWithoutLookup ==
    \A r \in Requests :
        r.handler /\ HostIsLocalhost(r.target) => r.lookups = {}

\* A HEAD, or a GET, has gone out to the upstream for request r.
ProbeIssued(r) == r.probe /\ AxiosSends(r.target)
FetchIssued(r) == r.fetch /\ AxiosSends(r.target)

\* C6 as claimed: for a request both of whose lookups failed no probe and no
\* fetch goes out to the upstream.
C6_TotalFailureRejected ==
    \A r \in Requests :
        AnswersAtHand(r) /\ r.addresses = {} /\ r.ipv6Addresses = {} =>
            ~ProbeIssued(r) /\ ~FetchIssued(r)

\* The target is no absolute http or https URL with a host.
Malformed(t) == t.scheme \notin {"http", "https"} \/ t.host = ""

\* C7 as claimed: a non-empty target that is no absolute URL, or whose scheme
\* is neither http nor https, or whose hostname is empty, is answered 403
\* ACCESS_DENIED.
C7_MalformedIsDenied ==
    \A r \in Requests :
        r.handler /\ r.target # NoTarget /\ Malformed(r.target) /\ r.pc = "done"
            => r.res = <<Envelope(ACCESS_DENIED)>>

\* The parameters a content-type value may carry after the media type.
Parameters == {"; charset=utf-8"}

\* The declared media type is application/json.
IsJsonType(type) ==
    /\ Len(type) >= 1
    /\ type[1] = "application/json"
    /\ \A i \in 2..Len(type) : type[i] \in Parameters

\* C8 as claimed: the body of an upstream answer that declares a type other
\* than application/json is never sent to the caller.
C8_OtherTypeNeverSent ==
    \A r \in Requests :
        r.getAnswer.hasType /\ ~IsJsonType(r.getAnswer.type) =>
            \A i \in 1..Len(r.res) : r.res[i].kind # "data"

\* C9 as claimed: when the probe is answered 2xx with type application/json
\* and a declared length above MAX_SIZE, the request ends with 413 and
\* axios.get is not called.
C9_ProbeRejectsDeclaredOversize ==
    \A r \in Requests :
        /\ r.headAnswer.net
        /\ r.headAnswer.status \in 200..299
        /\ r.headAnswer.hasType /\ IsJsonType(r.headAnswer.type)
        /\ r.headAnswer.hasLength /\ r.headAnswer.length > MAX_SIZE
        => /\ r.pc = "done"
           /\ r.res = <<Envelope(TOO_LARGE_RESPONSE)>>
           /\ ~r.fetch

\* C10 as claimed: when the full fetch is answered with a 3xx status, the
\* caller receives that status.
C10_RedirectPassedThrough ==
    \A r \in Requests :
        r.pc = "done" /\ r.getAnswer.net /\ r.getAnswer.status \in 300..399 =>
            /\ Len(r.res) = 1
            /\ r.res[1].status = r.getAnswer.status

\* C11 as claimed: a request whose full fetch was answered 2xx with declared
\* type application/json and a body of at most MAX_SIZE bytes ends with one
\* response, which carries the upstream body as the upstream sent it, under
\* the upstream's status or 200.
C11_SuccessForwardsVerbatim ==
    \A r \in Requests :
        /\ r.pc = "done"
        /\ r.getAnswer.net
        /\ r.getAnswer.status \in 200..299
        /\ r.getAnswer.hasType /\ IsJsonType(r.getAnswer.type)
        /\ r.getAnswer.body.bytes <= MAX_SIZE
        => /\ Len(r.res) = 1
           /\ r.res[1].kind = "data"
           /\ r.res[1].status \in {r.getAnswer.status, 200}
           /\ r.res[1].bytes = r.getAnswer.body.bytes

\* Request r has passed both limiters.
PassedLimiters(r) ==
    /\ r.minuteHits \in 1..MINUTE_MAX_REQUESTS
    /\ r.sixHourHits \in 1..SIX_HOURS_MAX_REQUESTS

\* C12 as claimed: a request with an empty target that has passed both
\* limiters is answered 400 MISSING_URL_PARAM, with no lookup, probe or fetch.
C12_EmptyTargetIsRejected ==
    \A r \in Requests :
        r.target = NoTarget /\ PassedLimiters(r) =>
            /\ r.res = <<Envelope(MISSING_URL_PARAM)>>
            /\ r.lookups = {} /\ ~r.probe /\ ~r.fetch

\* C13: GET / goes through both limiters (the long one when the short one
\* lets it pass); it is answered at once, 200 with HELLO_MSG when both let it
\* pass and 429 otherwise, and no lookup, probe or fetch is ever made for it.
C13_RootIsInformational ==
    \A r \in Requests :
        r.target = NoTarget =>
            /\ r.pc = "done"
            /\ r.minuteHits >= 1
            /\ r.minuteHits <= 20 <=> r.sixHourHits >= 1
            /\ r.res = IF r.minuteHits <= 20 /\ r.sixHourHits <= 500
                       THEN <<Envelope(HELLO_MSG)>>
                       ELSE <<Envelope(RATE_LIMIT_EXCEEDED)>>
            /\ r.handler <=> r.res = <<Envelope(HELLO_MSG)>>
            /\ r.lookups = {} /\ ~r.probe /\ ~r.fetch /\ r.calls = <<>>

\* C13's case: GET / has been answered 200 while another request awaits the
\* upstream's answer to its full fetch.
C13_Witness ==
    \E r, q \in Requests :
        /\ r.target = NoTarget
        /\ r.res = <<Envelope(HELLO_MSG)>>
        /\ r.minuteHits > q.minuteHits
        /\ q.pc = "get"

\* C14: within a request the stages run in the order short limiter, long
\* limiter, A lookup, AAAA lookup and guard, probe, full fetch, each starting
\* only when the one before has ended without rejecting; once a response is
\* written nothing more is started, and the response is that of the stage
\* that rejected: 429 means no handler ran, 403 or a handler's early answer
\* means no probe, a probe's rejection means no GET.
C14_StagesInOrder ==
    \A r \in Requests :
        /\ r.minuteHits >= 1
        /\ r.sixHourHits >= 1 => r.minuteHits <= 20
        /\ r.handler <=> PassedLimiters(r)
        /\ r.lookups \in {{}, {"A"}, {"A", "AAAA"}}
        /\ r.lookups # {} => r.handler
        /\ r.pc = "resolve4" => r.lookups = {"A"}
        /\ r.pc = "resolve6" => r.lookups = {"A", "AAAA"}
        /\ r.pc \in {"resolve4", "resolve6"} => r.calls = <<>>
        /\ r.calls \in {<<>>, <<"HEAD">>, <<"HEAD", "GET">>}
        /\ r.probe <=> r.calls # <<>>
        /\ r.fetch <=> r.calls = <<"HEAD", "GET">>
        /\ r.probe => r.lookups = {"A", "AAAA"}
        /\ r.pc = "head" <=> r.calls = <<"HEAD">> /\ r.headAnswer = NoAnswer
        /\ r.pc = "get" <=> r.fetch /\ r.getAnswer = NoAnswer
        /\ r.res # <<>> <=> r.pc = "done"
        /\ r.pc = "done" =>
               /\ ~r.handler <=> r.res = <<Envelope(RATE_LIMIT_EXCEEDED)>>
               /\ r.handler /\ r.lookups = {} =>
                      r.res \in {<<Envelope(HELLO_MSG)>>,
                                 <<Envelope(MISSING_URL_PARAM)>>,
                                 <<Envelope(ACCESS_DENIED)>>}
               /\ r.lookups # {} /\ ~r.probe <=>
                      r.lookups = {"A", "AAAA"} /\
                      r.res = <<Envelope(ACCESS_DENIED)>>
               /\ r.probe /\ ~r.fetch =>
                      /\ r.headAnswer # NoAnswer
                      /\ r.res \in {<<Envelope(TYPE_NOT_ALLOED)>>,
                                     <<Envelope(TOO_LARGE_RESPONSE)>>}
               /\ r.fetch => r.getAnswer # NoAnswer

\* C14's case: a request rejected by the probe has ended, with no GET made.
C14_Witness ==
    \E r \in Requests :
        /\ r.pc = "done"
        /\ r.calls = <<"HEAD">>
        /\ r.headAnswer.type = Html
        /\ r.res = <<Envelope(TYPE_NOT_ALLOED)>>

\* The probe of request r has failed: no answer, or an answer that is not 2xx.
ProbeFailed(r) ==
    /\ r.headAnswer # NoAnswer
    /\ ~(r.headAnswer.net /\ r.headAnswer.status \in 200..299)

\* C15: a request whose probe has failed (no answer, or a status that is not
\* 2xx) has no response written on that account and axios.get has been
\* called for it; and the response of a request that ends after its full
\* fetch depends on the answer to the full fetch only (any two such requests
\* with the same answer have the same response).
C15_ProbeFailureFallsThrough ==
    /\ \A r \in Requests :
           ProbeFailed(r) =>
               /\ r.pc = "get"
               /\ r.calls = <<"HEAD", "GET">>
               /\ r.res = <<>>
    /\ \A r, q \in Requests :
           /\ r.pc = "done" /\ r.fetch
           /\ q.pc = "done" /\ q.fetch
           /\ r.getAnswer = q.getAnswer
           => r.res = q.res

\* C15's case: the upstream has refused the HEAD of one request (405), whose
\* full fetch is under way, and another request has ended after its full
\* fetch.
C15_Witness ==
    \E r, q \in Requests :
        /\ r.pc = "get"
        /\ r.headAnswer.status = 405
        /\ q.pc = "done" /\ q.fetch

\* C16: the requests of one client that are served side by side in one
\* window each hold a slot of their own in every limiter they reached (no two
\* were given the same count, none a count the store does not hold), and a
\* request got past a limiter exactly when its slot is within the limiter's
\* maximum: at most 20 per short window and 500 per long window get past,
\* however the requests' awaits interleave.
C16_AtomicWindows ==
    /\ \A r \in Requests :
           /\ CopiesIn(r, reqs) = 1
           /\ r.minuteHits \in 1..store["minute"][r.client].totalHits
           /\ r.sixHourHits \in 0..store["sixHour"][r.client].totalHits
           /\ r.sixHourHits >= 1 <=> r.minuteHits <= 20
           /\ r.handler <=> r.minuteHits <= 20 /\ r.sixHourHits \in 1..500
           /\ ~r.handler <=> r.res = <<Envelope(RATE_LIMIT_EXCEEDED)>>
    /\ \A r, q \in Requests :
           r # q /\ r.client = q.client =>
               /\ r.minuteHits # q.minuteHits
               /\ r.sixHourHits # q.sixHourHits \/ r.sixHourHits = 0

\* C16's case: the request holding the last slot of both windows (the 20th of
\* its minute, the 500th of its six hours) still awaits its DNS answer while
\* the next one has been answered 429.
C16_Witness ==
    \E r, q \in Requests :
        /\ r.pc = "resolve4"
        /\ r.minuteHits = 20 /\ r.sixHourHits = 500
        /\ q.minuteHits = 21
        /\ q.res = <<Envelope(RATE_LIMIT_EXCEEDED)>>

\* The number of calls of one method among the axios calls made.
Count(calls, method) ==
    Cardinality({ i \in 1..Len(calls) : calls[i] = method })

\* C17: for every request axios.head is called at most once and axios.get at
\* most once, and a request whose full fetch got no answer from the upstream
\* has ended with one response, the 500 "Error fetching the URL" envelope.
C17_NoRetry ==
    \A r \in Requests :
        /\ Count(r.calls, "HEAD") <= 1
        /\ Count(r.calls, "GET") <= 1
        /\ r.getAnswer = NetworkError =>
               /\ r.pc = "done"
               /\ r.res = <<Envelope(FETCH_ERROR)>>

\* C17's case: the full fetch of a request to an http(s) upstream, made after
\* a probe that failed too, got no answer and the request has ended.
C17_Witness ==
    \E r \in Requests :
        /\ AxiosSends(r.target)
        /\ r.calls = <<"HEAD", "GET">>
        /\ r.getAnswer = NetworkError
        /\ r.pc = "done"

\* What has been decided for request r so far: where it stands, the calls
\* made and the response written.
Decision(r) == <<r.pc, r.calls, r.res>>

\* C18: two requests for the same target that both passed the limiters have
\* the same decision whenever the answers the decision was made from are the
\* same: with no answer awaited yet, with the same A and AAAA answers at
\* hand, with the same answer to the probe, with the same answer to the full
\* fetch; whatever their counts and the other requests served.
C18_SameInputsSameDecision ==
    \A r, q \in Requests :
        r.target = q.target /\ r.handler /\ q.handler =>
            /\ r.lookups = {} /\ q.lookups = {} => Decision(r) = Decision(q)
            /\ /\ AnswersAtHand(r) /\ AnswersAtHand(q)
               /\ r.addresses = q.addresses
               /\ r.ipv6Addresses = q.ipv6Addresses
               => Decision(r) = Decision(q)
            /\ r.headAnswer # NoAnswer /\ r.headAnswer = q.headAnswer
               => Decision(r) = Decision(q)
            /\ r.getAnswer # NoAnswer /\ r.getAnswer = q.getAnswer
               => Decision(r) = Decision(q)

\* C18's case: two requests for the same upstream, each answered with a
\* public A record and a private AAAA record, have both been denied.
C18_Witness ==
    \E r, q \in Requests :
        /\ r # q
        /\ r.target = q.target
        /\ r.pc = "done" /\ q.pc = "done"
        /\ r.addresses = {PublicV4} /\ q.addresses = {PublicV4}
        /\ r.ipv6Addresses = {PrivateV6} /\ q.ipv6Addresses = {PrivateV6}
        /\ r.res = <<Envelope(ACCESS_DENIED)>>

\* C19: a request whose full fetch was answered with a status that is not
\* 2xx, or with no declared content type, has ended with one response, the
\* 500 "Error fetching the URL" envelope.
C19_OnlyTyped2xxForwarded ==
    \A r \in Requests :
        /\ r.getAnswer.net
        /\ r.getAnswer.status \notin 200..299 \/ ~r.getAnswer.hasType
        => /\ r.pc = "done"
           /\ r.res = <<Envelope(FETCH_ERROR)>>

\* C19's case: one request's full fetch was answered 404 with an HTML body,
\* another's 200 with no content type, and both have ended.
C19_Witness ==
    \E r, q \in Requests :
        /\ r.pc = "done" /\ q.pc = "done"
        /\ r.getAnswer.status = 404 /\ r.getAnswer.type = Html
        /\ q.getAnswer.status = 200 /\ q.getAnswer.net /\ ~q.getAnswer.hasType

\* The count a limiter's store gives the next request at this moment.
NextHit(entry) == IF now < entry.resetTime THEN entry.totalHits + 1 ELSE 1

\* C20: a step in which no request arrives leaves both stores as they are
\* (a request rejected later with 400, 403, 413 or 500 keeps the slots it
\* took); an arriving request is counted by the short limiter whatever
\* becomes of it, by the long limiter exactly when the short one lets it
\* pass, and a request the long limiter rejects has been counted by the
\* short one.
C20_Step ==
    IF Arriving = {} THEN store' = store
    ELSE \A r \in Arriving :
             LET short == store["minute"][r.client]
                 long == store["sixHour"][r.client]
             IN  /\ store'["minute"][r.client].totalHits = NextHit(short)
                 /\ r.minuteHits = NextHit(short)
                 /\ IF NextHit(short) > 20
                    THEN /\ store'["sixHour"] = store["sixHour"]
                         /\ r.sixHourHits = 0
                         /\ r.res = <<Envelope(RATE_LIMIT_EXCEEDED)>>
                    ELSE /\ store'["sixHour"][r.client].totalHits = NextHit(long)
                         /\ r.sixHourHits = NextHit(long)
                         /\ NextHit(long) > 500 =>
                                r.res = <<Envelope(RATE_LIMIT_EXCEEDED)>>

C20_QuotaConsumedFirst == [][C20_Step]_vars

\* C20's case: the long-window limiter has rejected a request, the first of
\* its minute, and both stores hold its count.
C20_Witness ==
    \E r \in Requests :
        /\ r.sixHourHits = 501
        /\ r.res = <<Envelope(RATE_LIMIT_EXCEEDED)>>
        /\ r.minuteHits = 1
        /\ store["minute"][r.client].totalHits = 1
        /\ store["sixHour"][r.client].totalHits = 501

============================================================================
